---- MODULE Spec2Model ----
(***************************************************************************)
(* mesonwrap: the wrap web service (wrapweb/__init__.py) and the           *)
(* repository bootstrapper (tools/repoinit.py).                            *)
(*                                                                         *)
(* Text is a sequence of tokens: a token is one character, or a literal    *)
(* chunk of a template.  Two specifications share the variables:           *)
(*   Spec      the web service, one request context at a time;             *)
(*   RepoSpec  one RepoBuilder, its constructor and its methods.           *)
(***************************************************************************)
EXTENDS Integers, Sequences, FiniteSets, TLC

VARIABLES
    \* ---- wrapweb ----
    phase,        \* "idle" | "handled" (view returned, context alive) | "torn"
    req,          \* the request being served
    g,            \* flask.g of the current application context
    constructed,  \* handles constructed in this context, per collaborator
    closed,       \* close() calls in this context, per collaborator
    calls,        \* update_db invocations of this context, in order, each
                  \* with its arguments and how it ended
    resp,         \* the response of the view
    db,           \* contents behind wrapdb.WrapDatabase(db_directory)
    \* ---- repoinit ----
    op,           \* last RepoBuilder operation run: "none" | "init" | ...
    args,         \* the arguments of that operation
    raised,       \* the exception that operation ended with, or None
    net,          \* network / hosting-API calls made so far, in order
    repo,         \* the local git repository of the builder
    files         \* working tree files written by the builder

webVars == <<phase, req, g, constructed, closed, calls, resp, db>>
repoVars == <<op, args, raised, net, repo, files>>
vars == <<phase, req, g, constructed, closed, calls, resp, db,
          op, args, raised, net, repo, files>>

None == "None"

(***************************************************************************)
(* Bounds                                                                  *)
(***************************************************************************)
\* longest generated URL path segment (project, branch)
MaxLen == 2

\* characters the path segments are generated from: a lower-case letter, a
\* digit, the dot (all inside the class) and an upper-case letter (outside)
Alphabet == {"a", "7", ".", "Z"}

RECURSIVE StringsUpTo(_)
StringsUpTo(n) ==
    IF n = 0 THEN {<< >>}
    ELSE LET shorter == StringsUpTo(n - 1)
         IN  shorter \cup {Append(s, c) : s \in {t \in shorter : Len(t) = n - 1},
                                           c \in Alphabet}

master == <<"m", "a", "s", "t", "e", "r">>

\* a path segment is never empty: the URL rule's converter needs one character
Segments ==
    (StringsUpTo(MaxLen) \ {<< >>})
      \cup {master,
            <<"M", "a", "s", "t", "e", "r">>,
            <<"m", "a", "s", "t", "e", "r", "2">>,
            <<"z", "l", "i", "b">>,
            <<"a", "_", "b">>,
            <<"a", "-", "b">>,
            <<"1", ".", "2", ".", "8">>}

(***************************************************************************)
(* re.fullmatch('[a-z0-9._]+', s)                                          *)
(***************************************************************************)
LowerCase == {"a", "b", "c", "d", "e", "f", "g", "h", "i", "j", "k", "l", "m",
              "n", "o", "p", "q", "r", "s", "t", "u", "v", "w", "x", "y", "z"}
Digits == {"0", "1", "2", "3", "4", "5", "6", "7", "8", "9"}

NameClass == LowerCase \cup Digits \cup {".", "_"}

\* variant: re.search in place of re.fullmatch, one character of the class is enough
fullmatch_mut_search(s) == \E i \in 1..Len(s) : s[i] \in NameClass

fullmatch(s) == Len(s) >= 1 /\ \A i \in 1..Len(s) : s[i] \in NameClass

(***************************************************************************)
(* The query database (wrapdb.WrapDatabase), an external collaborator.     *)
(* A database is a sequence of entries; get_versions lists the (branch,    *)
(* revision) pairs of a project in stored order, get_wrap / get_zip give   *)
(* the stored content of one entry or None.                                *)
(***************************************************************************)
zlib == <<"z", "l", "i", "b">>
lz4 == <<"l", "z", "4">>
nope == <<"n", "o", "p", "e">>
b128 == <<"1", ".", "2", ".", "8">>
b129 == <<"1", ".", "2", ".", "9">>

Entry(p, b, r, w, z) == [project |-> p, branch |-> b, revision |-> r, wrap |-> w, zip |-> z]

Databases ==
    { << >>,
      << Entry(zlib, b128, 1, "wrap zlib 1.2.8-1", "zip zlib 1.2.8-1") >>,
      << Entry(zlib, b129, 1, "wrap zlib 1.2.9-1", "zip zlib 1.2.9-1"),
         Entry(lz4, b128, 2, "", ""),
         Entry(zlib, b128, 2, "wrap zlib 1.2.8-2", "zip zlib 1.2.8-2"),
         Entry(zlib, b128, 1, "wrap zlib 1.2.8-1", "zip zlib 1.2.8-1") >> }

RECURSIVE SelectProject(_, _)
SelectProject(d, p) ==
    IF d = << >> THEN << >>
    ELSE IF Head(d).project = p
         THEN <<Head(d)>> \o SelectProject(Tail(d), p)
         ELSE SelectProject(Tail(d), p)

db_get_versions(d, p) ==
    LET es == SelectProject(d, p)
    IN  [i \in 1..Len(es) |-> <<es[i].branch, es[i].revision>>]

RECURSIVE db_name_search(_)
db_name_search(d) ==
    IF d = << >> THEN << >>
    ELSE LET rest == db_name_search(Tail(d))
         IN  IF \E i \in 1..Len(rest) : rest[i] = Head(d).project
             THEN rest ELSE <<Head(d).project>> \o rest

Lookup(d, p, b, r) ==
    {i \in 1..Len(d) : d[i].project = p /\ d[i].branch = b /\ d[i].revision = r}

db_get_wrap(d, p, b, r) ==
    IF Lookup(d, p, b, r) = {} THEN None
    ELSE d[CHOOSE i \in Lookup(d, p, b, r) : TRUE].wrap

db_get_zip(d, p, b, r) ==
    IF Lookup(d, p, b, r) = {} THEN None
    ELSE d[CHOOSE i \in Lookup(d, p, b, r) : TRUE].zip

(***************************************************************************)
(* Responses                                                               *)
(***************************************************************************)
NoJson == [x \in {} |-> None]

\* flask.jsonify(out): status 200 until the view overwrites status_code
jsonify(out) == [status |-> 200, mimetype |-> "application/json", json |-> out, body |-> None]

WithStatus(r, code) == [r EXCEPT !.status = code]

\* flask.Response(result, mimetype=mtype)
Response(result, mtype) == [status |-> 200, mimetype |-> mtype, json |-> NoJson, body |-> result]

\* request.args[key] on a missing key raises BadRequestKeyError, an
\* HTTPException the framework answers with 400
BadRequest == [status |-> 400, mimetype |-> "text/html", json |-> NoJson, body |-> "Bad Request"]

\* any other exception leaving a view is answered with 500
InternalServerError ==
    [status |-> 500, mimetype |-> "text/html", json |-> NoJson, body |-> "Internal Server Error"]

NoResponse == [status |-> 0, mimetype |-> None, json |-> NoJson, body |-> None]

(***************************************************************************)
(* int(text) for the query parameter "revision"                            *)
(***************************************************************************)
DigitValue(c) ==
    CASE c = "0" -> 0 [] c = "1" -> 1 [] c = "2" -> 2 [] c = "3" -> 3 [] c = "4" -> 4
      [] c = "5" -> 5 [] c = "6" -> 6 [] c = "7" -> 7 [] c = "8" -> 8 [] c = "9" -> 9

RECURSIVE DecimalValue(_)
DecimalValue(s) ==
    IF s = << >> THEN 0
    ELSE 10 * DecimalValue(SubSeq(s, 1, Len(s) - 1)) + DigitValue(s[Len(s)])

IsDecimal(s) == Len(s) >= 1 /\ \A i \in 1..Len(s) : s[i] \in Digits

\* [ok |-> FALSE] stands for ValueError
int(s) ==
    IF IsDecimal(s) THEN [ok |-> TRUE, value |-> DecimalValue(s)]
    ELSE IF Len(s) >= 2 /\ s[1] = "-" /\ IsDecimal(Tail(s))
         THEN [ok |-> TRUE, value |-> 0 - DecimalValue(Tail(s))]
    ELSE IF Len(s) >= 2 /\ s[1] = "+" /\ IsDecimal(Tail(s))
         THEN [ok |-> TRUE, value |-> DecimalValue(Tail(s))]
    ELSE [ok |-> FALSE, value |-> 0]

(***************************************************************************)
(* The request context: flask.g and what was done to the collaborators     *)
(***************************************************************************)
FreshContext ==
    [g |-> [query_database |-> None, update_database |-> None],
     constructed |-> [query |-> 0, update |-> 0]]

NoneClosed == [query |-> 0, update |-> 0]

get_query_db(c) ==
    IF c.g.query_database = None
    THEN [c EXCEPT !.g.query_database = "WrapDatabase", !.constructed.query = @ + 1]
    ELSE c

get_update_db(c) ==
    IF c.g.update_database = None
    THEN [c EXCEPT !.g.update_database = "WrapUpdater", !.constructed.update = @ + 1]
    ELSE c

\* variant: a teardown that forgets the update handle
close_connection_mut_query_only(gv, cl) ==
    [query |-> IF gv.query_database # None THEN cl.query + 1 ELSE cl.query,
     update |-> cl.update]

close_connection(gv, cl) ==
    [query |-> IF gv.query_database # None THEN cl.query + 1 ELSE cl.query,
     update |-> IF gv.update_database # None THEN cl.update + 1 ELSE cl.update]

(***************************************************************************)
(* Views.  Each gives the context it leaves, the response, and the         *)
(* update_db calls it made.                                                *)
(***************************************************************************)
View(c, r, ucalls) == [ctx |-> c, resp |-> r, calls |-> ucalls]

get_projectlist(c, d) ==
    LET c1 == get_query_db(c)
    IN  View(c1, jsonify([output |-> "ok", projects |-> db_name_search(d)]), << >>)

\* variant: entries inserted at the front, so in reverse order
RECURSIVE VersionEntries_mut_reversed(_)
VersionEntries_mut_reversed(matches) ==
    IF matches = << >> THEN << >>
    ELSE Append(VersionEntries_mut_reversed(Tail(matches)),
                [branch |-> Head(matches)[1], revision |-> Head(matches)[2]])

\* the loop of get_project_info: one {branch, revision} entry appended per match
RECURSIVE VersionEntries(_)
VersionEntries(matches) ==
    IF matches = << >> THEN << >>
    ELSE <<[branch |-> Head(matches)[1], revision |-> Head(matches)[2]]>>
           \o VersionEntries(Tail(matches))

get_project_info(c, d, project) ==
    IF project = None THEN get_projectlist(c, d)
    ELSE LET c1 == get_query_db(c)
             matches == db_get_versions(d, project)
         IN  IF Len(matches) = 0
             THEN View(c1, WithStatus(jsonify([output |-> "notok", error |-> "No such project"]), 500), << >>)
             ELSE View(c1, WithStatus(jsonify([output |-> "ok", versions |-> VersionEntries(matches)]), 200), << >>)

\* variant: "if not result", which also takes empty content for a missing entry
IsMissing_mut_falsy(result) == result = None \/ result = ""

IsMissing(result) == result = None

\* path is "get_wrap" or "get_zip", the end of request.path
get_wrap(c, d, project, path, qargs) ==
    LET c1 == get_query_db(c)
    IN  IF "branch" \notin DOMAIN qargs THEN View(c1, BadRequest, << >>)
        ELSE IF "revision" \notin DOMAIN qargs THEN View(c1, BadRequest, << >>)
        ELSE LET branch == qargs["branch"]
                 rev == int(qargs["revision"])
             IN  IF ~rev.ok THEN View(c1, InternalServerError, << >>)
                 ELSE LET result == IF path = "get_wrap"
                                    THEN db_get_wrap(d, project, branch, rev.value)
                                    ELSE db_get_zip(d, project, branch, rev.value)
                          mtype == IF path = "get_wrap" THEN "text/plain" ELSE "application/zip"
                      IN  IF IsMissing(result)
                          THEN View(c1, WithStatus(jsonify([output |-> "notok", error |-> "No such entry"]), 500), << >>)
                          ELSE View(c1, Response(result, mtype), << >>)

\* variant: the clone URL without its .git suffix
repo_url_mut_no_suffix(project) == <<"https://github.com/mesonbuild/">> \o project

\* 'https://github.com/mesonbuild/%s.git' % project
repo_url(project) == <<"https://github.com/mesonbuild/">> \o project \o <<".git">>

\* variant: no protected branch
IsProtected_mut_never(branch) == FALSE

IsProtected(branch) == branch = master

\* the three checks that open update_project: the error of the first one that
\* fails, or None
update_rejection(project, branch) ==
    IF ~fullmatch(project) THEN "Invalid project name"
    ELSE IF ~fullmatch(branch) THEN "Invalid branch name"
    ELSE IF IsProtected(branch) THEN "No bananas for you"
    ELSE None

\* the rest of update_project; outcome is what update_db does: "return", or
\* "raise" (an Exception)
update_validated(c, project, branch, outcome) ==
    LET c1 == get_update_db(c)
        call == [args |-> <<project, repo_url(project), branch>>, outcome |-> outcome]
    IN  IF outcome = "raise"
        THEN View(c1, WithStatus(jsonify([output |-> "notok", error |-> "Wrap generation failed."]), 500), <<call>>)
        ELSE View(c1, jsonify([output |-> "ok"]), <<call>>)

\* variant: the update handle fetched at the top of the view, before the checks
update_project_mut_eager_handle(c, project, branch, outcome) ==
    LET c1 == get_update_db(c)
        error == update_rejection(project, branch)
    IN  IF error # None
        THEN View(c1, WithStatus(jsonify([output |-> "notok", error |-> error]), 500), << >>)
        ELSE update_validated(c1, project, branch, outcome)

update_project(c, project, branch, outcome) ==
    LET error == update_rejection(project, branch)
    IN  IF error # None
        THEN View(c, WithStatus(jsonify([output |-> "notok", error |-> error]), 500), << >>)
        ELSE update_validated(c, project, branch, outcome)

(***************************************************************************)
(* The web service: one request at a time, then the teardown hook          *)
(***************************************************************************)
NoRequest == [route |-> "none", project |-> None, branch |-> None, query |-> NoJson]

RepoInit0 ==
    /\ op = "none"
    /\ args = NoJson
    /\ raised = None
    /\ net = << >>
    /\ repo = [exists |-> FALSE, branches |-> {}, head |-> None, index |-> {},
               commits |-> << >>, origin |-> None]
    /\ files = NoJson

Init ==
    /\ phase = "idle"
    /\ req = NoRequest
    /\ g = FreshContext.g
    /\ constructed = FreshContext.constructed
    /\ closed = NoneClosed
    /\ calls = << >>
    /\ resp = NoResponse
    /\ db \in Databases
    /\ RepoInit0

\* projects asked of the query routes
QueryProjects == {zlib, lz4, nope}

\* values of the query parameters
BranchArgs == {b128, b129, master}
RevisionArgs == {<<"1">>, <<"2">>, <<"0", "2">>, <<"+", "1">>, <<"-", "1">>, <<"x">>, << >>}

QueryArgs ==
    {NoJson}
      \cup {[k \in {"branch"} |-> b] : b \in BranchArgs}
      \cup {[k \in {"revision"} |-> r] : r \in RevisionArgs}
      \cup {[branch |-> b, revision |-> r] : b \in BranchArgs, r \in RevisionArgs}

\* a request enters a fresh application context once the previous one is gone
CanServe == phase \in {"idle", "torn"}

Serve(r, v) ==
    /\ phase' = "handled"
    /\ req' = r
    /\ g' = v.ctx.g
    /\ constructed' = v.ctx.constructed
    /\ closed' = NoneClosed
    /\ calls' = v.calls
    /\ resp' = v.resp

\* GET /projects
ListProjects ==
    /\ CanServe
    /\ Serve([route |-> "projects", project |-> None, branch |-> None, query |-> NoJson],
             get_project_info(FreshContext, db, None))
    /\ UNCHANGED <<db, op, args, raised, net, repo, files>>

\* GET /projects/<project>
ProjectInfo ==
    /\ CanServe
    /\ \E p \in QueryProjects :
          Serve([route |-> "project_info", project |-> p, branch |-> None, query |-> NoJson],
                get_project_info(FreshContext, db, p))
    /\ UNCHANGED <<db, op, args, raised, net, repo, files>>

\* GET /projects/<project>/get_wrap and /projects/<project>/get_zip
GetWrap ==
    /\ CanServe
    /\ \E p \in QueryProjects, path \in {"get_wrap", "get_zip"}, q \in QueryArgs :
          Serve([route |-> path, project |-> p, branch |-> None, query |-> q],
                get_wrap(FreshContext, db, p, path, q))
    /\ UNCHANGED <<db, op, args, raised, net, repo, files>>

\* GET /update/<project>/<branch>; the updater may rewrite the database
UpdateProject ==
    /\ CanServe
    /\ \E p \in Segments, b \in Segments, outcome \in {"return", "raise"} :
          LET v == update_project(FreshContext, p, b, outcome)
          IN  /\ Serve([route |-> "update", project |-> p, branch |-> b, query |-> NoJson], v)
              /\ IF v.calls = << >> THEN db' = db ELSE db' \in Databases
    /\ UNCHANGED <<op, args, raised, net, repo, files>>

\* teardown_appcontext: runs when the context is popped, whatever the view
\* did; the response has been sent and the request is over
CloseConnection ==
    /\ phase = "handled"
    /\ phase' = "torn"
    /\ closed' = close_connection(g, closed)
    /\ req' = NoRequest
    /\ resp' = NoResponse
    /\ calls' = << >>
    /\ UNCHANGED <<g, constructed, db, op, args, raised, net, repo, files>>

Next == ListProjects \/ ProjectInfo \/ GetWrap \/ UpdateProject \/ CloseConnection

Spec == Init /\ [][Next]_vars

(***************************************************************************)
(* Properties of the web service                                           *)
(***************************************************************************)
IsUpdate == phase = "handled" /\ req.route = "update"

\* a name the pattern [a-z0-9._]+ does not fully match
BadName(s) == s = << >> \/ \E i \in 1..Len(s) : s[i] \notin NameClass

ErrorBody(msg) == [output |-> "notok", error |-> msg]

\* C1: an update request whose project name does not fully match
\* [a-z0-9._]+ is answered 500 with output 'notok' and error 'Invalid
\* project name', whatever the branch is.
C1_InvalidProject ==
    (IsUpdate /\ BadName(req.project))
        => /\ resp.status = 500
           /\ resp.json = ErrorBody("Invalid project name")

\* an invalid project together with the branch 'master'
C1_Witness ==
    /\ IsUpdate
    /\ BadName(req.project)
    /\ req.branch = master
    /\ resp.status = 500
    /\ resp.json.error = "Invalid project name"

\* C2: an update request for branch 'master' is answered 500 whether or not
\* the project name is valid, and update_db is never invoked with 'master'.
C2_MasterProtected ==
    /\ (IsUpdate /\ req.branch = master) => resp.status = 500
    /\ \A i \in 1..Len(calls) : calls[i].args[3] # master

\* a valid project with the branch 'master'
C2_Witness ==
    /\ IsUpdate
    /\ ~BadName(req.project)
    /\ req.branch = master
    /\ resp.status = 500
    /\ calls = << >>

Rejected == BadName(req.project) \/ BadName(req.branch) \/ req.branch = master

\* C3: an update request rejected for its project name, its branch name or
\* the protected branch makes no external call: the update handle is not
\* constructed and update_db is not invoked; update_db is invoked only when
\* all three checks passed.
C3_RejectBeforeExternal ==
    /\ (IsUpdate /\ Rejected)
          => /\ g.update_database = None
             /\ constructed.update = 0
             /\ calls = << >>
             /\ resp.status = 500
    /\ calls # << >> => (IsUpdate /\ ~Rejected /\ g.update_database # None)

\* a rejection for the branch name alone, and no handle
C3_Witness ==
    /\ IsUpdate
    /\ ~BadName(req.project)
    /\ BadName(req.branch)
    /\ resp.json.error = "Invalid branch name"
    /\ g.update_database = None

\* C4: /projects/<p> is answered 500 'No such project' when the database
\* has no version of p, else 200 'ok' with one {branch, revision} entry per
\* match, in the order the database returned them.
C4_ProjectInfo ==
    (phase = "handled" /\ req.route = "project_info")
        => LET matches == db_get_versions(db, req.project)
           IN  IF Len(matches) = 0
               THEN resp.status = 500 /\ resp.json = ErrorBody("No such project")
               ELSE /\ resp.status = 200
                    /\ resp.json.output = "ok"
                    /\ DOMAIN resp.json = {"output", "versions"}
                    /\ Len(resp.json.versions) = Len(matches)
                    /\ \A i \in 1..Len(matches) :
                          resp.json.versions[i] =
                              [branch |-> matches[i][1], revision |-> matches[i][2]]

\* a project with several versions, not in sorted order
C4_Witness ==
    /\ phase = "handled"
    /\ req.route = "project_info"
    /\ resp.status = 200
    /\ Len(resp.json.versions) = 3
    /\ resp.json.versions[1] = [branch |-> b129, revision |-> 1]
    /\ resp.json.versions[2] = [branch |-> b128, revision |-> 2]

IsFetch == phase = "handled" /\ req.route \in {"get_wrap", "get_zip"}

HasBoth == "branch" \in DOMAIN req.query /\ "revision" \in DOMAIN req.query

\* the stored entries the request identifies
Identified ==
    IF HasBoth /\ int(req.query["revision"]).ok
    THEN Lookup(db, req.project, req.query["branch"], int(req.query["revision"]).value)
    ELSE {}

Served ==
    LET e == db[CHOOSE i \in Identified : TRUE]
    IN  /\ resp.status = 200
        /\ resp.mimetype = (IF req.route = "get_wrap" THEN "text/plain" ELSE "application/zip")
        /\ resp.body = (IF req.route = "get_wrap" THEN e.wrap ELSE e.zip)

\* C5 as stated: the stored content when the entry exists, and status 500 in
\* every other case.
C5_AsStated ==
    IsFetch => IF Identified # {} THEN Served ELSE resp.status = 500

\* C5: the stored wrap content as text/plain (the archive as application/zip
\* for get_zip) when the entry (p,B,R) exists; status 500 in every other
\* case where both query parameters are given; status 400 when branch or
\* revision is not given.
C5_Fetch ==
    IsFetch => IF Identified # {} THEN Served
               ELSE IF HasBoth THEN resp.status = 500
               ELSE resp.status = 400

\* an entry whose stored wrap is the empty text, served as it is
C5_Witness ==
    /\ IsFetch
    /\ req.route = "get_wrap"
    /\ Identified # {}
    /\ resp.status = 200
    /\ resp.body = ""

\* C6: a validated update request invokes update_db exactly once, with the
\* project, 'https://github.com/mesonbuild/<project>.git' and the branch; the
\* answer is 500 'Wrap generation failed.' if the call raised and 200
\* {"output": "ok"} if it returned.
C6_UpdateOnce ==
    (IsUpdate /\ ~Rejected)
        => /\ Len(calls) = 1
           /\ calls[1].args = <<req.project,
                                <<"https://github.com/mesonbuild/">> \o req.project \o <<".git">>,
                                req.branch>>
           /\ calls[1].outcome = "raise"
                => resp.status = 500 /\ resp.json = ErrorBody("Wrap generation failed.")
           /\ calls[1].outcome = "return"
                => resp.status = 200 /\ resp.json = [output |-> "ok"]

\* an update that raised
C6_Witness ==
    /\ IsUpdate
    /\ Len(calls) = 1
    /\ calls[1].outcome = "raise"
    /\ calls[1].args[1] = zlib
    /\ resp.status = 500

\* C10: in one request context each handle is constructed at most once, and
\* only by a view that uses it; nothing is closed before the teardown; after
\* the teardown every constructed handle has been closed exactly once and a
\* handle never constructed has not been closed.
C10_Handles ==
    /\ constructed.query \in {0, 1} /\ constructed.update \in {0, 1}
    /\ (g.query_database # None) <=> (constructed.query = 1)
    /\ (g.update_database # None) <=> (constructed.update = 1)
    /\ phase = "handled"
          => /\ closed = NoneClosed
             /\ constructed.query = 1
                   <=> req.route \in {"projects", "project_info", "get_wrap", "get_zip"}
             /\ constructed.update = 1 <=> (req.route = "update" /\ calls # << >>)
    /\ phase = "torn" => closed = constructed

\* a context that built the update handle only, after its teardown
C10_Witness ==
    /\ phase = "torn"
    /\ constructed = [query |-> 0, update |-> 1]
    /\ closed = [query |-> 0, update |-> 1]

(***************************************************************************)
(* tools/repoinit.py                                                       *)
(***************************************************************************)
\* variant: the last two values of the template in the wrong order
upstream_templ_mut_swapped(directory, zipurl, filename, ziphash) ==
    <<"[wrap-file]\ndirectory = ", directory,
      "\n\nsource_url = ", zipurl,
      "\nsource_filename = ", ziphash,
      "\nsource_hash = ", filename, "\n">>

\* upstream_templ % (directory, zipurl, filename, ziphash)
upstream_templ(directory, zipurl, filename, ziphash) ==
    <<"[wrap-file]\ndirectory = ", directory,
      "\n\nsource_url = ", zipurl,
      "\nsource_filename = ", filename,
      "\nsource_hash = ", ziphash, "\n">>

\* readme.format(reponame=name)
readme(name) ==
    <<"This repository contains a Meson build definition for project ", name,
      ".\n\nFor more information please see http://mesonbuild.com.\n">>

\* mit_license.format(year=year)
mit_license(year) ==
    <<"Copyright (c) ", year, " The Meson development team\n\nPermission is hereby granted ...">>

\* the names bound at module level of repoinit.py; a name a function body
\* reads that is neither its local nor one of these raises NameError
ModuleGlobals ==
    {"argparse", "datetime", "git", "hashlib", "os", "shutil", "sys", "urllib",
     "environment", "upstream_templ", "readme", "mit_license", "GitFile",
     "RepoBuilder", "parser", "args", "organization", "builder"}

\* what the network serves, and hashlib.sha256(data).hexdigest()
Archive(url) ==
    CASE url = "https://zlib.net/zlib-1.2.8.tar.gz" -> "bytes of zlib-1.2.8"
      [] url = "https://example.org/lz4.zip" -> "bytes of lz4"
      [] OTHER -> "bytes of something else"

sha256(data) ==
    CASE data = "bytes of zlib-1.2.8" -> "36658cb7"
      [] data = "bytes of lz4" -> "0b8bd2d7"
      [] OTHER -> "e3b0c442"

\* RepoBuilder._get_hash(url): a static method whose only local name is its
\* parameter url, and whose body opens zipurl
_get_hash(url) ==
    LET locals == {"url"}
    IN  IF "zipurl" \in locals \cup ModuleGlobals
        THEN [raised |-> None, net |-> <<[call |-> "urlopen", what |-> url]>>,
              hash |-> sha256(Archive(url))]
        ELSE [raised |-> "NameError", net |-> << >>, hash |-> None]

NoRepo ==
    [exists |-> FALSE, branches |-> {}, head |-> None, index |-> {},
     commits |-> << >>, origin |-> None]

\* a repository found at path, with or without a remote called origin
FoundRepo(withOrigin) ==
    [exists |-> TRUE, branches |-> {"master"}, head |-> "master", index |-> {},
     commits |-> <<"earlier work">>,
     origin |-> IF withOrigin THEN "git@github.com:mesonbuild/found.git" ELSE None]

NoFiles == [f \in {} |-> << >>]

\* f with the file name holding content
WriteFile(f, name, content) ==
    [n \in DOMAIN f \cup {name} |-> IF n = name THEN content ELSE f[n]]

ssh_url(organization, name) == <<"git@github.com:", organization, "/", name, ".git">>

Built(r, f, n, x) == [repo |-> r, files |-> f, net |-> n, raised |-> x]

\* variant: the homepage check left out
HomepageMissing_mut_never(homepage) == FALSE

HomepageMissing(homepage) == homepage = None

\* RepoBuilder.__init__.  pathState is what git.Repo(path) finds:
\*   "repo"       a git repository with a remote origin
\*   "no_origin"  a git repository without one: repo.remote raises ValueError
\*   "not_git"    not a git repository: InvalidGitRepositoryError
\*   "missing"    no such path: NoSuchPathError, which the except clause
\*                does not catch
RepoBuilder_init(name, pathState, homepage, organization, year) ==
    CASE pathState = "repo" -> Built(FoundRepo(TRUE), NoFiles, << >>, None)
      [] pathState = "no_origin" ->
            Built(NoRepo, NoFiles, << >>, "ValueError: Remote named 'origin' didn't exist")
      [] pathState = "missing" -> Built(NoRepo, NoFiles, << >>, "NoSuchPathError")
      [] pathState = "not_git" ->
            IF HomepageMissing(homepage)
            THEN Built(NoRepo, NoFiles, << >>, "ValueError: homepage is required")
            ELSE LET url == ssh_url(organization, name)
                     f1 == WriteFile(NoFiles, "readme.txt", readme(name))
                     f2 == WriteFile(f1, "LICENSE.build", mit_license(year))
                     message == <<"Create repository for project ", name>>
                 IN  Built([exists |-> TRUE, branches |-> {"master"}, head |-> "master",
                            index |-> {"readme.txt", "LICENSE.build"},
                            commits |-> <<message>>, origin |-> url],
                           f2,
                           <<[call |-> "Github", what |-> None],
                             [call |-> "get_organization", what |-> organization],
                             [call |-> "create_repo",
                              what |-> <<name, <<"Meson build definitions for ", name>>, homepage>>],
                             [call |-> "push", what |-> "master"]>>,
                           None)

\* RepoBuilder.init_version(version)
init_version(r, version) ==
    [repo |-> [r EXCEPT !.branches = @ \cup {version}],
     net |-> <<[call |-> "push", what |-> version]>>]

\* the hash create_version goes on with
ResolveHash(zipurl, ziphash) ==
    IF ziphash = None THEN _get_hash(zipurl)
    ELSE [raised |-> None, net |-> << >>, hash |-> ziphash]

\* RepoBuilder.create_version(version, zipurl, filename, directory, ziphash):
\* the branch is created and checked out, upstream.wrap written and staged;
\* base only chooses the commit the new branch starts from
create_version(r, f, version, zipurl, filename, directory, ziphash) ==
    LET h == ResolveHash(zipurl, ziphash)
    IN  IF h.raised # None THEN Built(r, f, h.net, h.raised)
        ELSE Built([r EXCEPT !.branches = @ \cup {version}, !.head = version,
                             !.index = @ \cup {"upstream.wrap"}],
                   WriteFile(f, "upstream.wrap",
                             upstream_templ(directory, zipurl, filename, h.hash)),
                   h.net, None)

(***************************************************************************)
(* One RepoBuilder: the constructor, then its methods until one raises     *)
(***************************************************************************)
Names == {"zlib", "lz4"}
PathStates == {"repo", "no_origin", "not_git", "missing"}
Homepages == {None, "http://zlib.net"}
Organizations == {"mesonbuild", "mesonbuild-test"}
Years == {"2015"}
Versions == {"1.2.8", "1.2.9"}
ZipUrls == {"https://zlib.net/zlib-1.2.8.tar.gz", "https://example.org/lz4.zip"}
Filenames == {"zlib-1.2.8.tar.gz", "lz4.zip"}
Directories == {"zlib-1.2.8"}
ZipHashes == {None, "36658cb7", "ffffffff"}

RepoInit ==
    /\ phase = "idle"
    /\ req = NoRequest
    /\ g = FreshContext.g
    /\ constructed = FreshContext.constructed
    /\ closed = NoneClosed
    /\ calls = << >>
    /\ resp = NoResponse
    /\ db = << >>
    /\ RepoInit0

Construct ==
    /\ op = "none"
    /\ \E n \in Names, ps \in PathStates, h \in Homepages, o \in Organizations, y \in Years :
          LET b == RepoBuilder_init(n, ps, h, o, y)
          IN  /\ op' = "init"
              /\ args' = [name |-> n, path |-> ps, homepage |-> h, organization |-> o]
              /\ raised' = b.raised
              /\ net' = b.net
              /\ repo' = b.repo
              /\ files' = b.files
    /\ UNCHANGED webVars

\* a method runs on a builder that exists; a branch is created once
Usable == op # "none" /\ raised = None

InitVersion ==
    /\ Usable
    /\ \E v \in Versions \ repo.branches :
          LET b == init_version(repo, v)
          IN  /\ op' = "init_version"
              /\ args' = [version |-> v]
              /\ raised' = None
              /\ net' = net \o b.net
              /\ repo' = b.repo
    /\ UNCHANGED <<files, phase, req, g, constructed, closed, calls, resp, db>>

CreateVersion ==
    /\ Usable
    /\ \E v \in Versions \ repo.branches, u \in ZipUrls, fn \in Filenames,
          d \in Directories, zh \in ZipHashes :
          LET b == create_version(repo, files, v, u, fn, d, zh)
          IN  /\ op' = "create_version"
              /\ args' = [version |-> v, zipurl |-> u, filename |-> fn,
                          directory |-> d, ziphash |-> zh]
              /\ raised' = b.raised
              /\ net' = net \o b.net
              /\ repo' = b.repo
              /\ files' = b.files
    /\ UNCHANGED webVars

RepoNext == Construct \/ InitVersion \/ CreateVersion

RepoSpec == RepoInit /\ [][RepoNext]_vars

(***************************************************************************)
(* Properties of the repository bootstrapper                               *)
(***************************************************************************)
\* the value upstream.wrap gives for key: the token after the key's label
WrapLabel(key) ==
    CASE key = "directory" -> "[wrap-file]\ndirectory = "
      [] key = "source_url" -> "\n\nsource_url = "
      [] key = "source_filename" -> "\nsource_filename = "
      [] key = "source_hash" -> "\nsource_hash = "

WrapField(content, key) ==
    content[(CHOOSE i \in 1..Len(content) : content[i] = WrapLabel(key)) + 1]

HasWrap == "upstream.wrap" \in DOMAIN files

Downloads == {i \in 1..Len(net) : net[i].call = "urlopen"}

C8_ExplicitHash ==
    (op = "create_version" /\ args.ziphash # None)
        => /\ raised = None
           /\ Downloads = {}
           /\ HasWrap
           /\ WrapField(files["upstream.wrap"], "source_hash") = args.ziphash
           /\ "upstream.wrap" \in repo.index

\* a supplied hash that is not the digest of the archive at zipurl
C8_Witness ==
    /\ op = "create_version"
    /\ args.ziphash = "ffffffff"
    /\ args.zipurl = "https://zlib.net/zlib-1.2.8.tar.gz"
    /\ HasWrap
    /\ WrapField(files["upstream.wrap"], "source_hash") = "ffffffff"

\* C9: create_version with no hash supplied downloads the archive at zipurl,
\* computes its SHA-256 and completes by writing and staging upstream.wrap
\* with that digest as source_hash and the given directory, source_url and
\* source_filename.
C9_ComputedHash ==
    (op = "create_version" /\ args.ziphash = None)
        => /\ raised = None
           /\ \E i \in Downloads : net[i].what = args.zipurl
           /\ HasWrap
           /\ "upstream.wrap" \in repo.index
           /\ WrapField(files["upstream.wrap"], "source_hash") = sha256(Archive(args.zipurl))
           /\ WrapField(files["upstream.wrap"], "directory") = args.directory
           /\ WrapField(files["upstream.wrap"], "source_url") = args.zipurl
           /\ WrapField(files["upstream.wrap"], "source_filename") = args.filename

====
